---------------------------- MODULE Spec2Model ----------------------------
(***************************************************************************)
(* The rational sort of egglog (src/sort/rational.rs): the process-wide    *)
(* store RATS that interns Rational64 values behind a Mutex, and the       *)
(* primitives registered by register_primitives.                          *)
(*                                                                         *)
(* Rational64 is a pair <<numer, denom>> of fixed-width signed integers.   *)
(* The width is scaled down to Bits bits; every integer operation keeps    *)
(* that width.  An unchecked overflow aborts (panics) in a build with      *)
(* overflow checks (debug) and wraps in a build without (release).         *)
(***************************************************************************)
EXTENDS Integers, Sequences, FiniteSets, TLC

VARIABLES
    debug,      \* cfg(debug_assertions): overflow checks are compiled in
    inp,        \* operands handed to a primitive
    op,         \* the primitive that ran ("idle" before any)
    res,        \* its outcome
    rats,       \* RATS: the IndexSet, as the sequence of its entries
    mutex,      \* the Mutex around RATS: who holds it, and the poison flag
    th,         \* per thread: the call in progress and its outcome
    issued,     \* history: the <<value, handle>> pairs store has returned
    ncalls      \* history: the number of calls made so far

vars == <<debug, inp, op, res, rats, mutex, th, issued, ncalls>>

-----------------------------------------------------------------------------
(* Bounds *)

Bits == 4
NumThreads == 2
MaxCalls == 4
MaxHandle == 1
NumVals == 2

-----------------------------------------------------------------------------
(* Fixed-width integers *)

RECURSIVE Pow2(_)
Pow2(n) == IF n = 0 THEN 1 ELSE 2 * Pow2(n - 1)

Modulus == Pow2(Bits)
MinInt == -Pow2(Bits - 1)
MaxInt == Pow2(Bits - 1) - 1
Ints == MinInt..MaxInt

InRange(x) == MinInt <= x /\ x <= MaxInt

Wrap(x) == ((x - MinInt) % Modulus) + MinInt

Abs(x) == IF x < 0 THEN -x ELSE x

\* Rust's integer division truncates toward zero.
Quot(x, y) ==
    IF (x < 0) = (y < 0) THEN Abs(x) \div Abs(y) ELSE -(Abs(x) \div Abs(y))

RECURSIVE MathGcd(_, _)
MathGcd(m, n) == IF n = 0 THEN m ELSE MathGcd(n, m % n)

\* Outcomes of a primitive: Some(v), None, or a panic with its cause.
Some(v) == [tag |-> "Some", val |-> v]
None == [tag |-> "None", val |-> <<0, 0>>]
Panic(why) == [tag |-> why, val |-> <<0, 0>>]
IsSome(r) == r.tag = "Some"
IsNone(r) == r.tag = "None"
IsPanic(r) == r.tag \notin {"Some", "None"}

\* An unchecked integer result: aborts with overflow checks, wraps without.
Unchecked(x, dbg) ==
    IF InRange(x) THEN Some(x)
    ELSE IF dbg THEN Panic("overflow") ELSE Some(Wrap(x))

\* Integer::gcd for a signed type: the mathematical gcd, through abs(), which
\* overflows when the gcd is |MinInt|.
gcd(m, n, dbg) == Unchecked(MathGcd(Abs(m), Abs(n)), dbg)

\* Roots::sqrt of a non-negative integer: the floor of the square root.
isqrt(n) == CHOOSE s \in 0..n : s * s <= n /\ (s + 1) * (s + 1) > n

-----------------------------------------------------------------------------
(* Ratio<i64> *)

zero == <<0, 1>>
one == <<1, 1>>
is_zero(a) == a[1] = 0
is_one(a) == a[1] = a[2]
is_positive(a) == a[1] > 0
is_negative(a) == a[1] < 0

\* The values of type R: reduced, denominator positive.
Reduced(a) == a[2] > 0 /\ MathGcd(Abs(a[1]), a[2]) = 1
Rationals == {a \in Ints \X (1..MaxInt) : Reduced(a)}

\* Ratio::new: new_raw followed by reduce().
new(n, d, dbg) ==
    IF d = 0 THEN Panic("denominator == 0")
    ELSE IF n = 0 THEN Some(zero)
    ELSE IF n = d THEN Some(one)
    ELSE LET g == gcd(n, d, dbg) IN
         IF IsPanic(g) THEN g
         ELSE LET n1 == Quot(n, g.val)
                  d1 == Quot(d, g.val)
              IN IF d1 >= 0 THEN Some(<<n1, d1>>)
                 ELSE LET n2 == Unchecked(0 - n1, dbg)
                          d2 == Unchecked(0 - d1, dbg)
                      IN IF IsPanic(n2) THEN n2
                         ELSE IF IsPanic(d2) THEN d2
                         ELSE Some(<<n2.val, d2.val>>)

\* a/b + c/d = (lcm/b*a + lcm/d*c)/lcm, every product and the sum checked.
checked_addsub(a, b, sign, dbg) ==
    LET g == MathGcd(a[2], b[2])
        lcm == (a[2] \div g) * b[2]
        ln == (lcm \div a[2]) * a[1]
        rn == (lcm \div b[2]) * b[1]
        s == ln + sign * rn
    IN IF InRange(lcm) /\ InRange(ln) /\ InRange(rn) /\ InRange(s)
       THEN new(s, lcm, dbg)
       ELSE None

checked_add(a, b, dbg) == checked_addsub(a, b, 1, dbg)
checked_sub(a, b, dbg) == checked_addsub(a, b, -1, dbg)

\* a/b * c/d = (a/gcd_ad)*(c/gcd_bc) / ((d/gcd_ad)*(b/gcd_bc))
checked_mul(a, b, dbg) ==
    LET gcd_ad == gcd(a[1], b[2], dbg)
        gcd_bc == gcd(a[2], b[1], dbg)
    IN IF IsPanic(gcd_ad) THEN gcd_ad
       ELSE IF IsPanic(gcd_bc) THEN gcd_bc
       ELSE LET n == Quot(a[1], gcd_ad.val) * Quot(b[1], gcd_bc.val)
                d == Quot(a[2], gcd_bc.val) * Quot(b[2], gcd_ad.val)
            IN IF InRange(n) /\ InRange(d) THEN new(n, d, dbg) ELSE None

\* The reduction at the end of checked_div, which avoids negating MinInt.
div_reduce(numer, denom, dbg) ==
    IF denom = 0 THEN None
    ELSE IF numer = 0 THEN Some(zero)
    ELSE IF numer = denom THEN Some(one)
    ELSE LET g == gcd(numer, denom, dbg) IN
         IF IsPanic(g) THEN g
         ELSE LET n1 == Quot(numer, g.val)
                  d1 == Quot(denom, g.val)
              IN IF d1 < 0
                 THEN IF InRange(-n1) /\ InRange(-d1)
                      THEN Some(<<-n1, -d1>>)
                      ELSE None
                 ELSE Some(<<n1, d1>>)

\* a/b / c/d = (a/gcd_ac)*(d/gcd_bd) / ((c/gcd_ac)*(b/gcd_bd))
checked_div(a, b, dbg) ==
    IF is_zero(b) THEN None
    ELSE IF a[2] = b[2] THEN div_reduce(a[1], b[1], dbg)
    ELSE IF a[1] = b[1] THEN div_reduce(b[2], a[2], dbg)
    ELSE LET gcd_ac == gcd(a[1], b[1], dbg)
             gcd_bd == gcd(a[2], b[2], dbg)
         IN IF IsPanic(gcd_ac) THEN gcd_ac
            ELSE IF IsPanic(gcd_bd) THEN gcd_bd
            ELSE LET n == Quot(a[1], gcd_ac.val) * Quot(b[2], gcd_bd.val)
                     d == Quot(a[2], gcd_bd.val) * Quot(b[1], gcd_ac.val)
                 IN IF InRange(n) /\ InRange(d)
                    THEN div_reduce(n, d, dbg)
                    ELSE None

\* -a: the numerator negated, unchecked.
neg(a, dbg) ==
    LET n == Unchecked(-a[1], dbg)
    IN IF IsPanic(n) THEN n ELSE Some(<<n.val, a[2]>>)

\* a.abs()
abs(a, dbg) == IF is_negative(a) THEN neg(a, dbg) ELSE Some(a)

\* ToPrimitive::to_i64 of a Ratio<i64>: to_integer(), the quotient truncated.
to_i64(a) == Quot(a[1], a[2])

\* num::traits::checked_pow: repeated squaring over checked_mul.
RECURSIVE pow_loop(_, _, _, _)
pow_loop(base, acc, exp, dbg) ==
    IF exp <= 1 THEN Some(acc)
    ELSE LET e == exp \div 2
             b2 == checked_mul(base, base, dbg)
         IN IF ~IsSome(b2) THEN b2
            ELSE IF e % 2 = 1
                 THEN LET a2 == checked_mul(acc, b2.val, dbg)
                      IN IF ~IsSome(a2) THEN a2
                         ELSE pow_loop(b2.val, a2.val, e, dbg)
                 ELSE pow_loop(b2.val, acc, e, dbg)

RECURSIVE pow_even(_, _, _)
pow_even(base, exp, dbg) ==
    IF exp % 2 = 0
    THEN LET b2 == checked_mul(base, base, dbg)
         IN IF ~IsSome(b2) THEN b2 ELSE pow_even(b2.val, exp \div 2, dbg)
    ELSE IF exp = 1 THEN Some(base)
    ELSE pow_loop(base, base, exp, dbg)

checked_pow(base, exp, dbg) ==
    IF exp = 0 THEN Some(one) ELSE pow_even(base, exp, dbg)

-----------------------------------------------------------------------------
(* The primitives of register_primitives *)

prim_add(a, b, dbg) == checked_add(a, b, dbg)
prim_sub(a, b, dbg) == checked_sub(a, b, dbg)
prim_mul(a, b, dbg) == checked_mul(a, b, dbg)
prim_div(a, b, dbg) == checked_div(a, b, dbg)
prim_neg(a, dbg) == neg(a, dbg)
prim_abs(a, dbg) == abs(a, dbg)
prim_rational(n, d, dbg) == new(n, d, dbg)

\* usize::try_from(b) succeeds exactly for b >= 0.
try_usize(b) == IF b >= 0 THEN Some(b) ELSE None

prim_pow(a, b, dbg) ==
    IF is_zero(a)
    THEN IF is_positive(b) THEN Some(zero) ELSE None
    ELSE IF is_zero(b) THEN Some(one)
    ELSE LET bi == Some(to_i64(b)) IN
         IF IsSome(bi)
         THEN LET bu == try_usize(bi.val) IN
              IF IsSome(bu) THEN checked_pow(a, bu.val, dbg) ELSE None
         ELSE None

\* todo!() panics with "not yet implemented".
prim_log(a) == IF is_one(a) THEN Some(zero) ELSE Panic("not yet implemented")

prim_cbrt(a) == IF is_one(a) THEN Some(one) ELSE Panic("not yet implemented")

prim_sqrt(a, dbg) ==
    IF a[1] > 0 /\ a[2] > 0
    THEN LET s1 == isqrt(a[1])
             s2 == isqrt(a[2])
             is_perfect == s1 * s1 = a[1] /\ s2 * s2 = a[2]
         IN IF is_perfect THEN new(s1, s2, dbg) ELSE None
    ELSE None

-----------------------------------------------------------------------------
(* The store: RATS, a Mutex around an IndexSet *)

Threads == 1..NumThreads

\* The values the threads intern.
ValSeq == << <<-1, 2>>, <<MinInt, 1>>, <<0, 1>>, <<2, 3>>, <<3, 1>> >>
StoreVals == {ValSeq[i] : i \in 1..(IF NumVals < Len(ValSeq) THEN NumVals ELSE Len(ValSeq))}
Handles == 0..MaxHandle

get_index_wrapping(s, i) ==
    IF Len(s) = 0 THEN None ELSE Some(s[(i % Len(s)) + 1])

\* IndexSet::get_index: the entry at position i, if any.
get_index(s, i) == IF i < Len(s) THEN Some(s[i + 1]) ELSE None

\* The lookup half of IndexSet::insert_full: the position of an equal entry.
get_index_of(s, v) ==
    IF \E i \in 1..Len(s) : s[i] = v
    THEN Some((CHOOSE i \in 1..Len(s) : s[i] = v) - 1)
    ELSE None

\* The insert half of IndexSet::insert_full: the entry is appended and gets
\* the population count before the insert as its index.
push_front(s, v) == <<v>> \o s
push(s, v) == Append(s, v)
next_index_after(s) == Len(s) + 1
next_index(s) == Len(s)

\* Mutex::lock blocks until no thread holds the lock.
can_lock_unguarded(t) == TRUE
can_lock(t) == mutex.holders = {}

\* make_expr's two literals: the numerator and the denominator of the value.
expr_literals_swapped(rat) == <<rat[2], rat[1]>>
expr_literals(rat) == <<rat[1], rat[2]>>
expr_cost == 1

IdleCall == [pc |-> "idle", op |-> "none", arg |-> zero, h |-> 0,
             of_expr |-> FALSE, tag |-> "none", idx |-> 0, fresh |-> FALSE,
             val |-> zero, cost |-> 0]

StoreInit ==
    /\ rats = <<>>
    /\ mutex = [holders |-> {}, poisoned |-> FALSE]
    /\ th = [t \in Threads |-> IdleCall]
    /\ issued = {}
    /\ ncalls = 0

\* The record of a thread that has entered a call and is about to lock.
Entered(name, v, h, e) ==
    [IdleCall EXCEPT !.pc = "lock", !.op = name, !.arg = v, !.h = h,
                     !.of_expr = e]

\* A thread calls v.store(sort).
CallStore(t, v) ==
    /\ th[t].pc = "idle"
    /\ ncalls < MaxCalls
    /\ ncalls' = ncalls + 1
    /\ th' = [th EXCEPT ![t] = Entered("store", v, 0, FALSE)]
    /\ UNCHANGED <<debug, inp, op, res, rats, mutex, issued>>

\* A thread calls R::load(sort, value) with value.bits = h.
CallLoad(t, h) ==
    /\ th[t].pc = "idle"
    /\ ncalls < MaxCalls
    /\ ncalls' = ncalls + 1
    /\ th' = [th EXCEPT ![t] = Entered("load", zero, h, FALSE)]
    /\ UNCHANGED <<debug, inp, op, res, rats, mutex, issued>>

\* A thread calls make_expr(egraph, value) with value.bits = h.
CallMakeExpr(t, h) ==
    /\ th[t].pc = "idle"
    /\ ncalls < MaxCalls
    /\ ncalls' = ncalls + 1
    /\ th' = [th EXCEPT ![t] = Entered("make_expr", zero, h, FALSE)]
    /\ UNCHANGED <<debug, inp, op, res, rats, mutex, issued>>

\* The host evaluates the expression make_expr returned to the thread, the
\* call rational(n, d), and stores the result.
CallEvalStore(t) ==
    /\ th[t].pc = "idle"
    /\ th[t].op = "make_expr"
    /\ th[t].tag = "Some"
    /\ ncalls < MaxCalls
    /\ ncalls' = ncalls + 1
    /\ LET r == prim_rational(th[t].val[1], th[t].val[2], debug)
       IN /\ IsSome(r)
          /\ th' = [th EXCEPT ![t] = Entered("store", r.val, th[t].h, TRUE)]
    /\ UNCHANGED <<debug, inp, op, res, rats, mutex, issued>>

\* RATS.lock().unwrap(): the lock is taken; on a poisoned lock unwrap panics
\* and the guard is dropped again.
Lock(t) ==
    /\ th[t].pc = "lock"
    /\ can_lock(t)
    /\ IF mutex.poisoned
       THEN /\ th' = [th EXCEPT ![t].pc = "idle", ![t].tag = "PoisonError"]
            /\ UNCHANGED mutex
       ELSE /\ th' = [th EXCEPT ![t].pc = "locked"]
            /\ mutex' = [mutex EXCEPT !.holders = @ \cup {t}]
    /\ UNCHANGED <<debug, inp, op, res, rats, issued, ncalls>>

\* insert_full, first half: look the value up.
InsertLookup(t) ==
    /\ th[t].pc = "locked"
    /\ th[t].op = "store"
    /\ LET found == get_index_of(rats, th[t].arg)
       IN IF IsSome(found)
          THEN th' = [th EXCEPT ![t].pc = "unlock", ![t].idx = found.val,
                                ![t].fresh = FALSE]
          ELSE th' = [th EXCEPT ![t].pc = "push"]
    /\ UNCHANGED <<debug, inp, op, res, rats, mutex, issued, ncalls>>

\* insert_full, second half: the value is absent and is appended.
InsertPush(t) ==
    /\ th[t].pc = "push"
    /\ rats' = push(rats, th[t].arg)
    /\ th' = [th EXCEPT ![t].pc = "unlock", ![t].idx = next_index(rats),
                        ![t].fresh = TRUE]
    /\ UNCHANGED <<debug, inp, op, res, mutex, issued, ncalls>>

\* get_index(i).unwrap() under the lock: a missing entry panics while the
\* guard is alive, which poisons the Mutex.  The panic unwinds the calling
\* thread only; the other threads run on (a process that aborts instead is a
\* behaviour that stops here).
GetIndex(t) ==
    /\ th[t].pc = "locked"
    /\ th[t].op \in {"load", "make_expr"}
    /\ LET e == get_index(rats, th[t].h)
       IN IF IsSome(e)
          THEN /\ th' = [th EXCEPT ![t].pc = "unlock", ![t].val = e.val]
               /\ UNCHANGED mutex
          ELSE /\ th' = [th EXCEPT ![t].pc = "idle", ![t].tag = "unwrap on None"]
               /\ mutex' = [holders |-> mutex.holders \ {t}, poisoned |-> TRUE]
    /\ UNCHANGED <<debug, inp, op, res, rats, issued, ncalls>>

\* The guard is dropped at the end of the statement and the call returns:
\* store the handle, load the value, make_expr the cost and the call
\* rational(numer, denom).
Unlock(t) ==
    /\ th[t].pc = "unlock"
    /\ mutex' = [mutex EXCEPT !.holders = @ \ {t}]
    /\ th' = [th EXCEPT ![t].pc = "idle", ![t].tag = "Some",
                        ![t].val = IF th[t].op = "make_expr"
                                   THEN expr_literals(th[t].val)
                                   ELSE th[t].val,
                        ![t].cost = IF th[t].op = "make_expr"
                                    THEN expr_cost ELSE 0]
    /\ issued' = IF th[t].op = "store"
                 THEN issued \cup {<<th[t].arg, th[t].idx>>}
                 ELSE issued
    /\ UNCHANGED <<debug, inp, op, res, rats, ncalls>>

Init ==
    /\ debug \in BOOLEAN
    /\ inp = [kind |-> "none", a |-> zero, b |-> zero]
    /\ op = "idle"
    /\ res = None
    /\ StoreInit

Next ==
    \E t \in Threads :
        \/ \E v \in StoreVals : CallStore(t, v)
        \/ \E h \in Handles : CallLoad(t, h)
        \/ \E h \in Handles : CallMakeExpr(t, h)
        \/ CallEvalStore(t)
        \/ Lock(t)
        \/ InsertLookup(t)
        \/ InsertPush(t)
        \/ GetIndex(t)
        \/ Unlock(t)

Spec == Init /\ [][Next]_vars

-----------------------------------------------------------------------------
(* One primitive call on drawn operands *)

UnaryInputs == {[kind |-> "unary", a |-> a, b |-> zero] : a \in Rationals}
BinaryInputs == {[kind |-> "binary", a |-> a, b |-> b] : a, b \in Rationals}
IntInputs == {[kind |-> "ints", a |-> p, b |-> zero] : p \in Ints \X Ints}

PrimInit ==
    /\ debug \in BOOLEAN
    /\ inp \in UnaryInputs \cup BinaryInputs \cup IntInputs
    /\ op = "idle"
    /\ res = None
    /\ StoreInit

Ran(name, r) ==
    /\ op = "idle"
    /\ op' = name
    /\ res' = r
    /\ UNCHANGED <<debug, inp, rats, mutex, th, issued, ncalls>>

Add == inp.kind = "binary" /\ Ran("+", prim_add(inp.a, inp.b, debug))
Sub == inp.kind = "binary" /\ Ran("-", prim_sub(inp.a, inp.b, debug))
Mul == inp.kind = "binary" /\ Ran("*", prim_mul(inp.a, inp.b, debug))
Div == inp.kind = "binary" /\ Ran("/", prim_div(inp.a, inp.b, debug))
PowOp == inp.kind = "binary" /\ Ran("pow", prim_pow(inp.a, inp.b, debug))
NegOp == inp.kind = "unary" /\ Ran("neg", prim_neg(inp.a, debug))
AbsOp == inp.kind = "unary" /\ Ran("abs", prim_abs(inp.a, debug))
LogOp == inp.kind = "unary" /\ Ran("log", prim_log(inp.a))
SqrtOp == inp.kind = "unary" /\ Ran("sqrt", prim_sqrt(inp.a, debug))
CbrtOp == inp.kind = "unary" /\ Ran("cbrt", prim_cbrt(inp.a))
RationalOp ==
    inp.kind = "ints" /\ Ran("rational", prim_rational(inp.a[1], inp.a[2], debug))

PrimNext ==
    \/ Add
    \/ Sub
    \/ Mul
    \/ Div
    \/ PowOp
    \/ NegOp
    \/ AbsOp
    \/ LogOp
    \/ SqrtOp
    \/ CbrtOp
    \/ RationalOp

PrimSpec == PrimInit /\ [][PrimNext]_vars

-----------------------------------------------------------------------------
(* Exact rational arithmetic over unbounded integers, the reference the     *)
(* primitives are compared with.                                            *)

\* n/d in lowest terms with a positive denominator (d # 0).
Lowest(n, d) ==
    LET g == MathGcd(Abs(n), Abs(d))
        s == IF d < 0 THEN -1 ELSE 1
    IN <<s * (n \div g), s * (d \div g)>>

Fits(a) == InRange(a[1]) /\ InRange(a[2])

ExactBinary(name, a, b) ==
    CASE name = "+" -> Lowest(a[1] * b[2] + b[1] * a[2], a[2] * b[2])
      [] name = "-" -> Lowest(a[1] * b[2] - b[1] * a[2], a[2] * b[2])
      [] name = "*" -> Lowest(a[1] * b[1], a[2] * b[2])
      [] name = "/" -> Lowest(a[1] * b[2], a[2] * b[1])

RECURSIVE IntPow(_, _)
IntPow(x, k) == IF k = 0 THEN 1 ELSE x * IntPow(x, k - 1)

\* The checked integer power: the exact power when it fits, else no result.
ExactPow(a, k) ==
    LET p == <<IntPow(a[1], k), IntPow(a[2], k)>>
    IN IF Fits(p) THEN Some(p) ELSE None

IsSquare(n) == n >= 0 /\ isqrt(n) * isqrt(n) = n

-----------------------------------------------------------------------------
(* Claims about the primitives, checked under PrimSpec *)

\* C6: +, -, * and / are checked: each returns the exact result in lowest
\* terms or no result, never a wrapped value and never an abort; / returns no
\* result for a zero divisor; div(a, a) returns no result iff a = 0 and 1/1
\* otherwise.
C6_CheckedBinary ==
    op \in {"+", "-", "*", "/"} =>
        /\ \/ IsNone(res)
           \/ /\ IsSome(res)
              /\ ~(op = "/" /\ is_zero(inp.b))
              /\ res.val = ExactBinary(op, inp.a, inp.b)
        /\ (op = "/" /\ is_zero(inp.b)) => IsNone(res)
        /\ (op = "/" /\ inp.a = inp.b) =>
               IF is_zero(inp.a) THEN IsNone(res) ELSE res = Some(one)

\* C7: neg and abs never fail: for every a, also with the minimum numerator,
\* neg(a) is exactly -a and abs(a) exactly |a|.
C7_NegAbsNeverFail ==
    /\ op = "neg" => res = Some(<<-inp.a[1], inp.a[2]>>)
    /\ op = "abs" => res = Some(<<Abs(inp.a[1]), inp.a[2]>>)

\* C4: pow follows the five rules in order; in particular every negative and
\* every non-integer exponent gives no result.
C4_PowPolicy ==
    op = "pow" =>
        LET a == inp.a
            b == inp.b
        IN res = IF is_zero(a) /\ b[1] > 0 THEN Some(zero)
                 ELSE IF is_zero(a) THEN None
                 ELSE IF is_zero(b) THEN Some(one)
                 ELSE IF b[2] = 1 /\ b[1] >= 0 THEN ExactPow(a, b[1])
                 ELSE None

\* C5: sqrt returns the exact root exactly when numerator and denominator are
\* non-negative perfect squares (0/1 included), and no result otherwise.
C5_SqrtExact ==
    op = "sqrt" =>
        res = IF IsSquare(inp.a[1]) /\ IsSquare(inp.a[2])
              THEN Some(<<isqrt(inp.a[1]), isqrt(inp.a[2])>>)
              ELSE None

\* C8: log(1) = 0 and cbrt(1) = 1; every other input is NotYetImplemented,
\* except that the undefined case, log of a non-positive number, is an
\* absence of result and never an abort.
C8_LogCbrt ==
    /\ op = "log" =>
           res = IF is_one(inp.a) THEN Some(zero)
                 ELSE IF inp.a[1] <= 0 THEN None
                 ELSE Panic("not yet implemented")
    /\ op = "cbrt" =>
           res = IF is_one(inp.a) THEN Some(one)
                 ELSE Panic("not yet implemented")

-----------------------------------------------------------------------------
(* Claims about the store, checked under Spec *)

Returned(t) == th[t].pc = "idle" /\ th[t].tag = "Some"
Failed(t) == th[t].pc = "idle" /\ th[t].tag \in {"unwrap on None", "PoisonError"}
InCritical(t) == th[t].pc \in {"locked", "push", "unlock"}
Range(s) == {s[i] : i \in 1..Len(s)}
Injective(s) == \A i, j \in 1..Len(s) : s[i] = s[j] => i = j

\* C1: under every interleaving, two store calls of equal values return the
\* same handle: lookup and insertion are one critical section (a thread
\* between them holds the lock, alone), so no value is inserted twice.
C1_SameValueSameHandle ==
    /\ \A p, q \in issued : p[1] = q[1] => p[2] = q[2]
    /\ Injective(rats)
    /\ \A t \in Threads : InCritical(t) => mutex.holders = {t}

\* Two threads have stored the same value and both got its handle.
C1_Witness ==
    \E t1, t2 \in Threads :
        /\ t1 # t2
        /\ Returned(t1) /\ th[t1].op = "store"
        /\ Returned(t2) /\ th[t2].op = "store"
        /\ th[t1].arg = th[t2].arg
        /\ th[t1].idx = th[t2].idx
        /\ th[t1].fresh # th[t2].fresh

\* C2: in every reachable state the entries are a bijection between the
\* values interned so far and the handles 0..n-1: distinct values have
\* distinct handles, a newly interned value gets handle n, the population
\* before its insert, and the population is the number of distinct values.
C2_Bijection ==
    LET interned == {p[1] : p \in issued} \cup
                    {th[t].arg : t \in {u \in Threads : th[u].pc = "unlock"
                                                        /\ th[u].op = "store"}}
    IN /\ Injective(rats)
       /\ Range(rats) = interned
       /\ Len(rats) = Cardinality(interned)
       /\ \A p \in issued : p[2] \in 0..(Len(rats) - 1) /\ rats[p[2] + 1] = p[1]
       /\ \A p, q \in issued : p[1] # q[1] => p[2] # q[2]
       /\ \A t \in Threads :
              (th[t].pc = "unlock" /\ th[t].op = "store" /\ th[t].fresh)
                  => th[t].idx = Len(rats) - 1

\* Every thread is idle and the threads have interned two distinct values.
C2_Witness ==
    /\ \A t \in Threads : th[t].pc = "idle"
    /\ \E t1, t2 \in Threads :
           /\ t1 # t2
           /\ Returned(t1) /\ th[t1].op = "store" /\ th[t1].fresh
           /\ Returned(t2) /\ th[t2].op = "store" /\ th[t2].fresh
    /\ Len(rats) = 2
    /\ Cardinality(issued) = 2

C9_ExtractionRoundTrip ==
    [][ /\ \A t \in Threads :
               (th'[t].pc = "idle" /\ th'[t].tag = "Some") =>
                   /\ th'[t].op = "make_expr" =>
                          /\ th'[t].cost = 1
                          /\ get_index(rats', th'[t].h) = Some(th'[t].val)
                          /\ Reduced(th'[t].val)
                   /\ (th'[t].op = "store" /\ th'[t].of_expr) =>
                          th'[t].idx = th'[t].h
        /\ \A t \in Threads :
               (th[t].op = "make_expr" /\ th[t].pc # "idle" /\ th'[t] # th[t])
                   => rats' = rats /\ issued' = issued
      ]_vars

\* The expression of handle 1, a value with a negative numerator or a
\* denominator other than 1, was evaluated and stored, and gave handle 1.
C9_Witness ==
    \E t \in Threads :
        /\ Returned(t) /\ th[t].op = "store"
        /\ th[t].of_expr /\ th[t].h = 1 /\ th[t].idx = 1 /\ ~th[t].fresh
        /\ th[t].arg # zero

\* C10, as stated: load(h) with h >= population fails fatally and returns no
\* value; load(h) with h below the population never fails.
C10_Original ==
    \A t \in Threads :
        (th[t].pc = "idle" /\ th[t].op = "load") =>
            IF th[t].h < Len(rats)
            THEN th[t].tag = "Some" /\ th[t].val = rats[th[t].h + 1]
            ELSE th[t].tag \in {"unwrap on None", "PoisonError"}

\* C10, amended: load(h) with h >= population panics, returns no value and
\* changes no entry; the panic happens under the lock and poisons it, so every
\* later call fails at the lock, again without changing an entry; load(h) with
\* h below the population fails only on a lock that an earlier misuse
\* poisoned, and otherwise returns the entry.
C10_MisuseFatal ==
    [][ /\ \A t \in Threads :
               (th'[t].pc = "idle" /\ th'[t].op = "load") =>
                   /\ th'[t].tag = "Some" =>
                          get_index(rats', th'[t].h) = Some(th'[t].val)
                   /\ th'[t].tag = "unwrap on None" =>
                          th'[t].h >= Len(rats') /\ mutex'.poisoned
                   /\ th'[t].tag = "PoisonError" => mutex'.poisoned
        /\ \A t \in Threads :
               (th[t].pc = "locked" /\ th[t].op = "load" /\ th'[t] # th[t]) =>
                   IF th[t].h >= Len(rats)
                   THEN th'[t].pc = "idle" /\ th'[t].tag = "unwrap on None"
                   ELSE th'[t].pc = "unlock" /\ th'[t].val = rats[th[t].h + 1]
        /\ \A t \in Threads :
               (th'[t] # th[t] /\ th'[t].tag \in {"unwrap on None", "PoisonError"})
                   => rats' = rats /\ issued' = issued
        /\ (mutex'.poisoned /\ ~mutex.poisoned) =>
               \E t \in Threads :
                   /\ th[t].pc = "locked"
                   /\ th[t].h >= Len(rats)
                   /\ th'[t].tag = "unwrap on None"
        /\ \A t \in Threads :
               (th[t].pc = "lock" /\ th'[t] # th[t]) =>
                   (th'[t].tag = "PoisonError" <=> mutex.poisoned)
      ]_vars

\* One thread's load of a handle beyond the population has panicked, and then
\* another thread's load of a handle of the store failed at the poisoned lock.
C10_Witness ==
    \E t1, t2 \in Threads :
        /\ Failed(t1) /\ th[t1].op = "load" /\ th[t1].tag = "unwrap on None"
        /\ th[t1].h >= Len(rats)
        /\ Failed(t2) /\ th[t2].op = "load" /\ th[t2].tag = "PoisonError"
        /\ th[t2].h < Len(rats)

=============================================================================
